---- MODULE Spec2Model ----
(***************************************************************************)
(* house-mgmt: the recurring-task -> daily-task-instance scheduling engine *)
(* (generation, hourly status management, completion and undo) as a state  *)
(* machine.  Time is counted in whole hours since 2024-01-01T00:00Z and a   *)
(* local date is the number of days since 2024-01-01 (a Monday).            *)
(***************************************************************************)
EXTENDS Integers, Sequences, FiniteSets, TLC

VARIABLES
    recurringTasks,   \* recurring task templates: function task id -> template
    dailyTasks,       \* daily task instances: sequence of instance records
    now,              \* the clock, hours since 2024-01-01T00:00Z
    lastOp,           \* the last operation: [op, id, result]; a status run records
                      \* the count of the first of a series of runs as id
    advCount,         \* number of transitions the last status run made
    advPc,            \* position of the stepwise status run ("idle", "q1", "u1", "q2")
    advIds,           \* instances selected by the stepwise run's last query
    tasksByMember,    \* the dashboard store: [tasks, progress], the tasks of the
                      \* member as last fetched and the member's completed count
    apiCalls,         \* completeTask calls awaiting their response, each with
                      \* the oldStatus and oldCompleted it captured
    timingService,    \* the timingService singleton: [currentHour, currentMinutes]
                      \* as its constructor read them
    focus,            \* the focus view as last rendered from the house store's
                      \* getters
    activities        \* the activities view: [mockTasks, mockCompletedTasks]

\* the state of the views
uiVars == <<timingService, focus, activities>>

vars == <<recurringTasks, dailyTasks, now, lastOp, advCount, advPc, advIds,
          tasksByMember, apiCalls, timingService, focus, activities>>

----------------------------------------------------------------------------
(* Bounds of the model *)

\* at most this many recurring task templates exist
MaxDefs == 1
\* generation is asked for the dates FirstDay .. FirstDay + MaxDay
MaxDay == 0
\* at most this many (template, date) pairs have a daily task instance
MaxTasks == 1
\* the clock runs for this many hours from StartNow
MaxHours == 8
\* at most this many completeTask calls of the dashboard store await their
\* response at a time
MaxCalls == 1
\* one tap on a task is followed through at most this many requests
MaxAttempts == 5
\* the calendar checks ask generation for the dates 0 .. MaxCalDay
\* (2024-01-01 .. 2025-02-03: 400 days with the leap day 2024-02-29)
MaxCalDay == 399

----------------------------------------------------------------------------
(* Program constants *)

\* calculate_clear_timestamp: next_day.replace(hour=5) -- "5 AM UTC = midnight EST"
ClearHourUtc == 5
\* calculate_clear_timestamp: timedelta(days=7) for Weekly
WeeklyClearDays == 7
\* calculate_clear_timestamp: timedelta(days=30) for Monthly
MonthlyClearDays == 30
\* local wall-clock hour of the Daily due descriptors
MorningHour == 9
AfternoonHour == 13
EveningHour == 19
\* 'completed_at': null
Null == -1
\* scheduleRetry(fn, maxAttempts = 3)
maxAttempts == 3

----------------------------------------------------------------------------
(* Calendar and time zone (America/New_York, the hardcoded kitchen zone) *)

\* 2024-03-10 and 2024-11-03: first and last day of daylight-saving time 2024
DstStartDay == 31 + 29 + 9
DstEndDay == 31 + 29 + 31 + 30 + 31 + 30 + 31 + 31 + 30 + 31 + 2

\* the first local date of the model: the spring-forward Sunday 2024-03-10
FirstDay == DstStartDay

Dates == FirstDay .. (FirstDay + MaxDay)

\* month lengths of 2024 (a leap year) and 2025
MonthLengths == <<31, 29, 31, 30, 31, 30, 31, 31, 30, 31, 30, 31,
                  31, 28, 31, 30, 31, 30, 31, 31, 30, 31, 30, 31>>

RECURSIVE DayOfMonthFrom(_, _)
DayOfMonthFrom(d, m) ==
    IF m > Len(MonthLengths) \/ d < MonthLengths[m] THEN d + 1
    ELSE DayOfMonthFrom(d - MonthLengths[m], m + 1)

\* day of the month (1..31) of local date d
DayOfMonth(d) == DayOfMonthFrom(d, 1)

WeekdayNames == <<"Sunday", "Monday", "Tuesday", "Wednesday", "Thursday",
                  "Friday", "Saturday">>

\* weekday name of local date d (2024-01-01 is a Monday)
Weekday(d) == WeekdayNames[((d + 1) % 7) + 1]

\* hours the zone is behind UTC at local hour h of local date d
UtcOffset(d, h) ==
    IF /\ (d > DstStartDay \/ (d = DstStartDay /\ h >= 2))
       /\ (d < DstEndDay \/ (d = DstEndDay /\ h < 2))
    THEN 4 ELSE 5

\* TimeZoneConverter.ToUtc: the instant of local hour h on local date d
ToUtc(d, h) == 24 * d + h + UtcOffset(d, h)

\* the instant the clock starts at: 18:00 local on FirstDay, after the Morning
\* due time and one hour before the Evening due time
StartNow == ToUtc(FirstDay, EveningHour) - 1
EndNow == StartNow + MaxHours

----------------------------------------------------------------------------
(* Recurring task templates *)

Frequencies == {"Daily", "Weekly", "Monthly"}
OverdueBehaviors == {"Immediate", "1 hour", "6 hours", "1 day"}
Statuses == {"Active", "Inactive"}

DayStrings == <<"1", "2", "3", "4", "5", "6", "7", "8", "9", "10", "11", "12",
                "13", "14", "15", "16", "17", "18", "19", "20", "21", "22", "23",
                "24", "25", "26", "27", "28", "29", "30", "31">>

\* validate_due: int(v) of a Monthly due descriptor
ParseDay(s) == CHOOSE i \in 1 .. 31 : DayStrings[i] = s

\* dueOptions / validate_due: the due descriptors a frequency accepts
DueOptions(frequency) ==
    CASE frequency = "Daily" -> {"Morning", "Afternoon", "Evening"}
      [] frequency = "Weekly" -> {WeekdayNames[i] : i \in 1 .. 7}
      [] frequency = "Monthly" -> {DayStrings[i] : i \in 1 .. 31}

\* the templates the admin form submits in this model
TaskData ==
    {[frequency |-> "Daily", due |-> "Evening", overdue_when |-> "Immediate",
      status |-> "Active"],
     [frequency |-> "Daily", due |-> "Morning", overdue_when |-> "1 day",
      status |-> "Active"],
     [frequency |-> "Daily", due |-> "Morning", overdue_when |-> "1 hour",
      status |-> "Inactive"],
     [frequency |-> "Weekly", due |-> "Sunday", overdue_when |-> "1 hour",
      status |-> "Active"],
     [frequency |-> "Monthly", due |-> "10", overdue_when |-> "Immediate",
      status |-> "Active"]}

\* the dates and the templates of the calendar checks
CalDates == 0 .. MaxCalDay

CalTaskData ==
    {[frequency |-> "Daily", due |-> "Morning", overdue_when |-> "Immediate",
      status |-> "Active"],
     [frequency |-> "Daily", due |-> "Evening", overdue_when |-> "1 hour",
      status |-> "Active"],
     [frequency |-> "Weekly", due |-> "Sunday", overdue_when |-> "1 hour",
      status |-> "Active"],
     [frequency |-> "Monthly", due |-> "31", overdue_when |-> "Immediate",
      status |-> "Active"],
     [frequency |-> "Monthly", due |-> "15", overdue_when |-> "1 day",
      status |-> "Active"]}

----------------------------------------------------------------------------
(* Instance generation *)

\* ShouldGenerate with a Monthly day past the end of the month rolled over to
\* the last day of the month
ShouldGenerate_Rollover(t, d) ==
    CASE t.frequency = "Daily" -> TRUE
      [] t.frequency = "Weekly" -> Weekday(d) = t.due
      [] t.frequency = "Monthly" ->
            \/ DayOfMonth(d) = ParseDay(t.due)
            \/ (DayOfMonth(d + 1) = 1 /\ DayOfMonth(d) < ParseDay(t.due))

\* ShouldGenerate with a Weekly task generated seven days after its first
\* weekday of the year, counted in days of the year without the leap day
ShouldGenerate_NoLeapDay(t, d) ==
    CASE t.frequency = "Daily" -> TRUE
      [] t.frequency = "Weekly" -> Weekday(IF d >= 31 + 29 THEN d + 1 ELSE d) = t.due
      [] t.frequency = "Monthly" -> DayOfMonth(d) = ParseDay(t.due)

\* generate_daily_tasks, step 4: Daily = every day, Weekly = the specified
\* weekday, Monthly = the specified day of the month
ShouldGenerate(t, d) ==
    CASE t.frequency = "Daily" -> TRUE
      [] t.frequency = "Weekly" -> Weekday(d) = t.due
      [] t.frequency = "Monthly" -> DayOfMonth(d) = ParseDay(t.due)

\* DueWindowResolver.Resolve: local hour of the due time
DueHour(t) ==
    CASE t.frequency = "Daily" /\ t.due = "Morning" -> MorningHour
      [] t.frequency = "Daily" /\ t.due = "Afternoon" -> AfternoonHour
      [] t.frequency = "Daily" /\ t.due = "Evening" -> EveningHour
      [] OTHER -> MorningHour

\* overdue_when as a number of hours
OverdueDelay(o) ==
    CASE o = "Immediate" -> 0
      [] o = "1 hour" -> 1
      [] o = "6 hours" -> 6
      [] o = "1 day" -> 24

\* calculate_clear_timestamp(due_timestamp, frequency, local_date)
calculate_clear_timestamp(due_timestamp, frequency, local_date) ==
    CASE frequency = "Daily" -> 24 * (local_date + 1) + ClearHourUtc
      [] frequency = "Weekly" -> due_timestamp + 24 * WeeklyClearDays
      [] frequency = "Monthly" -> due_timestamp + 24 * MonthlyClearDays

\* the daily task instance generated from template t (id tid) for local date d
NewInstance(tid, t, d) ==
    LET due == ToUtc(d, DueHour(t))
    IN  [recurring_task_id |-> tid,
         date |-> d,
         frequency |-> t.frequency,
         due_time |-> t.due,
         due_timestamp |-> due,
         overdue_at |-> due + OverdueDelay(t.overdue_when),
         clear_at |-> calculate_clear_timestamp(due, t.frequency, d),
         status |-> "Pending",
         completed_at |-> Null]

\* an instance for (tid, d) is already stored
Exists(tasks, tid, d) ==
    \E i \in DOMAIN tasks : tasks[i].recurring_task_id = tid /\ tasks[i].date = d

\* ActiveTasks without the filter on the status
ActiveTasks_All(templates) == DOMAIN templates

\* generate_daily_tasks, step 1: query all active recurring tasks
ActiveTasks(templates) ==
    {tid \in DOMAIN templates : templates[tid].status = "Active"}

\* ToGenerate without the look-up of an instance already stored
ToGenerate_NoLookup(templates, tasks, d) ==
    {tid \in ActiveTasks(templates) : ShouldGenerate(templates[tid], d)}

\* the template ids GenerateForDate writes an instance for
ToGenerate(templates, tasks, d) ==
    {tid \in ActiveTasks(templates) :
        ShouldGenerate(templates[tid], d) /\ ~Exists(tasks, tid, d)}

RECURSIVE AppendAll(_, _, _, _)
AppendAll(tasks, templates, ids, d) ==
    IF ids = {} THEN tasks
    ELSE LET tid == CHOOSE x \in ids : \A y \in ids : x <= y
         IN  AppendAll(Append(tasks, NewInstance(tid, templates[tid], d)),
                       templates, ids \ {tid}, d)

\* the (template, date) pairs that have an instance
Keys(tasks) ==
    {<<tasks[i].recurring_task_id, tasks[i].date>> : i \in DOMAIN tasks}

\* generate_daily_tasks / GenerateForDate(date)
generate_daily_tasks(templates, tasks, d) ==
    AppendAll(tasks, templates, ToGenerate(templates, tasks, d), d)

----------------------------------------------------------------------------
(* Hourly status management *)

\* update_task_statuses, step 1: pending daily tasks where overdue_at < now()
PendingQuery(tasks, t) ==
    {i \in DOMAIN tasks : tasks[i].status = "Pending" /\ tasks[i].overdue_at < t}

\* update_task_statuses, step 3: overdue tasks where clear_at < now()
OverdueQuery(tasks, t) ==
    {i \in DOMAIN tasks : tasks[i].status = "Overdue" /\ tasks[i].clear_at < t}

\* Transition as a blind write: the status found by the query is not rechecked
Transition_Blind(tasks, ids, from, to) ==
    [i \in DOMAIN tasks |->
        IF i \in ids THEN [tasks[i] EXCEPT !.status = to] ELSE tasks[i]]

\* a write of `to` to the status of the instances in ids that still hold `from`
Transition(tasks, ids, from, to) ==
    [i \in DOMAIN tasks |->
        IF i \in ids /\ tasks[i].status = from
        THEN [tasks[i] EXCEPT !.status = to]
        ELSE tasks[i]]

\* update_task_statuses, step 2: update status from 'Pending' to 'Overdue'
MarkOverdue(tasks, ids) == Transition(tasks, ids, "Pending", "Overdue")

\* update_task_statuses, step 4: update status from 'Overdue' to 'Cleared'
MarkCleared(tasks, ids) == Transition(tasks, ids, "Overdue", "Cleared")

\* number of instances whose status differs between a and b
Changed(a, b) == Cardinality({i \in DOMAIN a : a[i].status # b[i].status})

\* update_task_statuses with both queries made before the first update
update_task_statuses_QueriesFirst(tasks, t) ==
    MarkCleared(MarkOverdue(tasks, PendingQuery(tasks, t)), OverdueQuery(tasks, t))

\* update_task_statuses with the status of every instance, whatever it is,
\* derived from the timestamps
update_task_statuses_AllStatuses(tasks, t) ==
    [i \in DOMAIN tasks |->
        IF tasks[i].clear_at < t THEN [tasks[i] EXCEPT !.status = "Cleared"]
        ELSE IF tasks[i].overdue_at < t THEN [tasks[i] EXCEPT !.status = "Overdue"]
        ELSE tasks[i]]

\* update_task_statuses: the four steps in order, at time t
update_task_statuses(tasks, t) ==
    LET marked == MarkOverdue(tasks, PendingQuery(tasks, t))
    IN  MarkCleared(marked, OverdueQuery(marked, t))

\* the count a run at time t returns
TransitionCount(tasks, t) ==
    LET marked == MarkOverdue(tasks, PendingQuery(tasks, t))
    IN  Changed(tasks, marked) + Changed(marked, MarkCleared(marked, OverdueQuery(marked, t)))

----------------------------------------------------------------------------
(* Completion ledger *)

\* CompleteResult that takes a Cleared or Skipped instance like a Pending one
CompleteResult_NoTerminal(task) ==
    IF task.status = "Completed" THEN "NoOp" ELSE "ok"

\* PUT /api/daily-tasks/{task_id}/complete
CompleteResult(task) ==
    CASE task.status \in {"Pending", "Overdue"} -> "ok"
      [] task.status = "Completed" -> "NoOp"
      [] OTHER -> "AlreadyTerminal"

Completed(task, t) ==
    IF CompleteResult(task) = "ok"
    THEN [task EXCEPT !.status = "Completed", !.completed_at = t]
    ELSE task

\* UndoResult that accepts an instance in any status
UndoResult_AlwaysOk(task) == "ok"

\* PUT /api/daily-tasks/{task_id}/uncomplete: legal only from Completed
UndoResult(task) ==
    IF task.status = "Completed" THEN "ok" ELSE "NotCompleted"

\* Uncompleted with the completion time left on the task
Uncompleted_KeepsTime(task) == [task EXCEPT !.status = "Pending"]

\* undoTaskCompletion: the task goes back to the active list with
\* completed: false and isOverdue: false, and leaves the completed list
Uncompleted(task) ==
    [task EXCEPT !.status = "Pending", !.completed_at = Null]

\* PUT /api/daily-tasks/{task_id}/skip
Skipped(task) == [task EXCEPT !.status = "Skipped"]

\* Unsnoozed that reactivates the task as Pending
Unsnoozed_ToPending(task) == [task EXCEPT !.status = "Pending"]

\* PUT /api/daily-tasks/{task_id}/unsnooze: "Can Unsnooze cleared tasks back
\* to 'Overdue'"
Unsnoozed(task) == [task EXCEPT !.status = "Overdue"]

----------------------------------------------------------------------------
(* The views: timingService and the getters of the house store *)

\* the instants at which America/New_York changes its offset
DstStartUtc == 24 * DstStartDay + 2 + 5
DstEndUtc == 24 * DstEndDay + 2 + 4

\* new Date().getHours() at instant t: the local hour of the wall clock
getHours(t) ==
    (t - (IF t >= DstStartUtc /\ t < DstEndUtc THEN 4 ELSE 5)) % 24

\* new TimingService(): the constructor reads the clock once
TimingService(t) == [currentHour |-> getHours(t), currentMinutes |-> 0]

\* the period words a due descriptor or task name contains, lower-cased
Words(s) ==
    CASE s \in {"Morning", "Morning pills"} -> {"morning"}
      [] s \in {"Lunch"} -> {"lunch"}
      [] s \in {"Afternoon"} -> {"afternoon"}
      [] s \in {"Evening", "Evening walk"} -> {"evening"}
      [] s \in {"Night", "Tonight"} -> {"night"}
      [] OTHER -> {}

\* dueTime.toLowerCase().includes(w) || taskName.includes(w)
Mentions(dueTime, taskName, w) == w \in Words(dueTime) \/ w \in Words(taskName)

\* no match of /(\d{1,2}):?(\d{0,2})\s*(AM|PM)/i
NoMatch == [hours |-> Null, minutes |-> Null, period |-> "none"]

\* dueTime.match(/(\d{1,2}):?(\d{0,2})\s*(AM|PM)/i)
TimeMatch(dueTime) ==
    CASE dueTime = "9:00 AM" -> [hours |-> 9, minutes |-> 0, period |-> "AM"]
      [] dueTime = "12:00 AM" -> [hours |-> 12, minutes |-> 0, period |-> "AM"]
      [] dueTime = "3:30 PM" -> [hours |-> 3, minutes |-> 30, period |-> "PM"]
      [] OTHER -> NoMatch

\* task.due_time || task.due || 'Anytime'
DueTimeOf(task) == IF "due_time" \in DOMAIN task THEN task.due_time ELSE "Anytime"

\* task.task_name?.toLowerCase() || ''
TaskNameOf(task) == IF "task_name" \in DOMAIN task THEN task.task_name ELSE ""

\* the hour of a time-specific due descriptor on the 24 hour clock
DueHour24(m) ==
    IF m.period = "PM" /\ m.hours # 12 THEN m.hours + 12
    ELSE IF m.period = "AM" /\ m.hours = 12 THEN 0
    ELSE m.hours

\* isTaskOverdue(task) with the overdue hours of the windows shifted: the
\* Evening window ends at 22:00
isTaskOverdue_EarlyEvening(task, ts) ==
    LET dueTime == DueTimeOf(task)
        taskName == TaskNameOf(task)
    IN  IF task.status = "Completed" THEN FALSE
        ELSE IF Mentions(dueTime, taskName, "morning") THEN ts.currentHour >= 12
        ELSE IF Mentions(dueTime, taskName, "lunch") THEN ts.currentHour >= 14
        ELSE IF Mentions(dueTime, taskName, "afternoon") THEN ts.currentHour >= 18
        ELSE IF Mentions(dueTime, taskName, "evening") THEN ts.currentHour >= 22
        ELSE IF Mentions(dueTime, taskName, "night")
             THEN ts.currentHour >= 2 /\ ts.currentHour < 6
        ELSE IF TimeMatch(dueTime) # NoMatch
             THEN ts.currentHour * 60 + ts.currentMinutes
                    > DueHour24(TimeMatch(dueTime)) * 60
                      + TimeMatch(dueTime).minutes + 60
        ELSE FALSE

\* timingService.isTaskOverdue(task)
isTaskOverdue(task, ts) ==
    LET dueTime == DueTimeOf(task)
        taskName == TaskNameOf(task)
    IN  IF task.status = "Completed" THEN FALSE
        ELSE IF Mentions(dueTime, taskName, "morning") THEN ts.currentHour >= 12
        ELSE IF Mentions(dueTime, taskName, "lunch") THEN ts.currentHour >= 14
        ELSE IF Mentions(dueTime, taskName, "afternoon") THEN ts.currentHour >= 18
        ELSE IF Mentions(dueTime, taskName, "evening") THEN ts.currentHour >= 23
        ELSE IF Mentions(dueTime, taskName, "night")
             THEN ts.currentHour >= 2 /\ ts.currentHour < 6
        ELSE IF TimeMatch(dueTime) # NoMatch
             THEN ts.currentHour * 60 + ts.currentMinutes
                    > DueHour24(TimeMatch(dueTime)) * 60
                      + TimeMatch(dueTime).minutes + 60
        ELSE FALSE

\* timingService.isTaskDueNow(task)
isTaskDueNow(task, ts) ==
    LET dueTime == DueTimeOf(task)
        taskName == TaskNameOf(task)
    IN  IF task.status = "Completed" THEN FALSE
        ELSE IF Mentions(dueTime, taskName, "morning")
             THEN ts.currentHour >= 6 /\ ts.currentHour < 12
        ELSE IF Mentions(dueTime, taskName, "lunch")
             THEN ts.currentHour >= 11 /\ ts.currentHour < 14
        ELSE IF Mentions(dueTime, taskName, "afternoon")
             THEN ts.currentHour >= 12 /\ ts.currentHour < 18
        ELSE IF Mentions(dueTime, taskName, "evening")
             THEN ts.currentHour >= 17 /\ ts.currentHour < 23
        ELSE IF Mentions(dueTime, taskName, "night")
             THEN ts.currentHour >= 21 \/ ts.currentHour < 2
        ELSE FALSE

\* getter overdueTasks: the tasks of the list, by their index in dailyTasks
\* (the sort by member and task name does not change which tasks are listed)
overdueTasks(tasks, ts) ==
    {i \in DOMAIN tasks : tasks[i].status # "Completed" /\ isTaskOverdue(tasks[i], ts)}

\* getter currentPeriodTasks, in the same way
currentPeriodTasks(tasks, ts) ==
    {i \in DOMAIN tasks :
        /\ tasks[i].status # "Completed"
        /\ ~isTaskOverdue(tasks[i], ts)
        /\ (isTaskDueNow(tasks[i], ts) \/ tasks[i].status = "Pending")}

\* getter currentPeriodName
currentPeriodName(hour) ==
    IF hour < 12 THEN "This Morning"
    ELSE IF hour < 17 THEN "This Afternoon"
    ELSE IF hour < 21 THEN "This Evening"
    ELSE "Tonight"

\* getter nextPeriodName
nextPeriodName(hour) ==
    IF hour < 11 THEN "This Afternoon"
    ELSE IF hour < 16 THEN "This Evening"
    ELSE IF hour < 20 THEN "Tonight"
    ELSE "Tomorrow Morning"

\* getter tasksByMember: the progress of the member the tasks are assigned to
progress(tasks, ts) ==
    [completed |-> Cardinality({i \in DOMAIN tasks : tasks[i].status = "Completed"}),
     overdue |-> Cardinality({i \in DOMAIN tasks :
                     isTaskOverdue(tasks[i], ts) /\ tasks[i].status # "Completed"}),
     total |-> Len(tasks)]

\* what the focus view shows when it evaluates the getters at instant t
Focus(tasks, ts, t) ==
    [overdueTasks |-> overdueTasks(tasks, ts),
     currentPeriodTasks |-> currentPeriodTasks(tasks, ts),
     currentPeriodName |-> currentPeriodName(getHours(t)),
     nextPeriodName |-> nextPeriodName(getHours(t))]

\* the activities view's mock data: mockTasks '4' and mockCompletedTasks 'c1';
\* an id is its leading 'c', if any, and the number that follows; dueTime and
\* completedAt are instants
DueOfMock == 24 * 225 + 9
mockTasks ==
    <<[id |-> [c |-> FALSE, n |-> 4], name |-> "Morning vitamins",
       dueTime |-> DueOfMock, completed |-> FALSE, isOverdue |-> FALSE]>>
mockCompletedTasks ==
    <<[id |-> [c |-> TRUE, n |-> 1], name |-> "Morning pills",
       completedAt |-> DueOfMock - 1]>>

\* the views before anything is rendered
InitViews ==
    /\ timingService = TimingService(now)
    /\ focus = Focus(dailyTasks, timingService, now)
    /\ activities = [mockTasks |-> mockTasks, mockCompletedTasks |-> mockCompletedTasks]

----------------------------------------------------------------------------
(* Actions *)

Op(op, id, result) == [op |-> op, id |-> id, result |-> result]

Init ==
    /\ recurringTasks = <<>>
    /\ dailyTasks = <<>>
    /\ now = StartNow
    /\ lastOp = Op("init", 0, "ok")
    /\ advCount = 0
    /\ advPc = "idle"
    /\ advIds = {}
    /\ tasksByMember = [tasks |-> <<>>, progress |-> 0]
    /\ apiCalls = <<>>
    /\ InitViews

\* createRecurringTask(taskData)
CreateRecurringTask(taskData) ==
    /\ Len(recurringTasks) < MaxDefs
    /\ recurringTasks' = Append(recurringTasks, taskData)
    /\ lastOp' = Op("create", Len(recurringTasks) + 1, "ok")
    /\ UNCHANGED <<uiVars, tasksByMember, apiCalls, dailyTasks, now, advCount, advPc, advIds>>

\* GenerateForDate(d)
GenerateForDate(d) ==
    /\ Cardinality(Keys(generate_daily_tasks(recurringTasks, dailyTasks, d))) <= MaxTasks
    /\ dailyTasks' = generate_daily_tasks(recurringTasks, dailyTasks, d)
    /\ lastOp' = Op("generate", d, "ok")
    /\ UNCHANGED <<uiVars, tasksByMember, apiCalls, recurringTasks, now, advCount, advPc, advIds>>

\* AdvanceLifecycle(now): one whole status run
AdvanceLifecycle ==
    /\ advPc = "idle"
    /\ dailyTasks' = update_task_statuses(dailyTasks, now)
    /\ advCount' = TransitionCount(dailyTasks, now)
    /\ lastOp' = IF lastOp.op = "advance"
                 THEN Op("advance", lastOp.id, "repeat")
                 ELSE Op("advance", TransitionCount(dailyTasks, now), "first")
    /\ UNCHANGED <<uiVars, tasksByMember, apiCalls, recurringTasks, now, advPc, advIds>>

\* Complete(instanceId)
Complete(i) ==
    /\ i \in DOMAIN dailyTasks
    /\ dailyTasks' = [dailyTasks EXCEPT ![i] = Completed(dailyTasks[i], now)]
    /\ lastOp' = Op("complete", i, CompleteResult(dailyTasks[i]))
    /\ UNCHANGED <<uiVars, tasksByMember, apiCalls, recurringTasks, now, advCount, advPc, advIds>>

\* Undo(instanceId)
Undo(i) ==
    /\ i \in DOMAIN dailyTasks
    /\ dailyTasks' = [dailyTasks EXCEPT ![i] =
                        IF UndoResult(dailyTasks[i]) = "ok"
                        THEN Uncompleted(dailyTasks[i])
                        ELSE dailyTasks[i]]
    /\ lastOp' = Op("undo", i, UndoResult(dailyTasks[i]))
    /\ UNCHANGED <<uiVars, tasksByMember, apiCalls, recurringTasks, now, advCount, advPc, advIds>>

\* Skip(instanceId)
Skip(i) ==
    /\ i \in DOMAIN dailyTasks
    /\ dailyTasks[i].status \in {"Pending", "Overdue"}
    /\ dailyTasks' = [dailyTasks EXCEPT ![i] = Skipped(dailyTasks[i])]
    /\ lastOp' = Op("skip", i, "ok")
    /\ UNCHANGED <<uiVars, tasksByMember, apiCalls, recurringTasks, now, advCount, advPc, advIds>>

\* Unsnooze(instanceId): reactivate a cleared task
Unsnooze(i) ==
    /\ i \in DOMAIN dailyTasks
    /\ dailyTasks[i].status = "Cleared"
    /\ dailyTasks' = [dailyTasks EXCEPT ![i] = Unsnoozed(dailyTasks[i])]
    /\ lastOp' = Op("unsnooze", i, "ok")
    /\ UNCHANGED <<uiVars, tasksByMember, apiCalls, recurringTasks, now, advCount, advPc, advIds>>

\* the clock moves on by one hour
Tick ==
    /\ now < EndNow
    /\ now' = now + 1
    /\ lastOp' = Op("tick", 0, "ok")
    /\ UNCHANGED <<uiVars, tasksByMember, apiCalls, recurringTasks, dailyTasks, advCount, advPc, advIds>>

Next ==
    \/ \E taskData \in TaskData : CreateRecurringTask(taskData)
    \/ \E d \in Dates : GenerateForDate(d)
    \/ AdvanceLifecycle
    \/ \E i \in DOMAIN dailyTasks : Complete(i)
    \/ \E i \in DOMAIN dailyTasks : Undo(i)
    \/ \E i \in DOMAIN dailyTasks : Skip(i)
    \/ \E i \in DOMAIN dailyTasks : Unsnooze(i)
    \/ Tick

Spec == Init /\ [][Next]_vars

----------------------------------------------------------------------------
(* Generation over the calendar: one template, one call of GenerateForDate *)

InitCal ==
    /\ recurringTasks \in {<<t>> : t \in CalTaskData}
    /\ dailyTasks = <<>>
    /\ now = StartNow
    /\ lastOp = Op("init", 0, "ok")
    /\ advCount = 0
    /\ advPc = "idle"
    /\ advIds = {}
    /\ tasksByMember = [tasks |-> <<>>, progress |-> 0]
    /\ apiCalls = <<>>
    /\ InitViews

\* GenerateForDate(d) on the empty instance table
GenerateOnce(d) == dailyTasks = <<>> /\ GenerateForDate(d)

NextCal == \E d \in CalDates : GenerateOnce(d)

SpecCal == InitCal /\ [][NextCal]_vars

----------------------------------------------------------------------------
(* The dashboard store (stores/dailyTasks.ts) and the task views *)

\* a task as GET /api/daily-tasks returns it
StoreTask(task) == [status |-> task.status, completed_at |-> task.completed_at]

\* "progress": {"completed": n}: the number of Completed tasks
CompletedCount(tasks) ==
    Cardinality({i \in DOMAIN tasks : tasks[i].status = "Completed"})

\* tasks_by_member of the response of GET /api/daily-tasks
TasksByMember(tasks) ==
    [tasks |-> [i \in DOMAIN tasks |-> StoreTask(tasks[i])],
     progress |-> CompletedCount(tasks)]

\* sequence q without its element k
Without(q, k) == SubSeq(q, 1, k - 1) \o SubSeq(q, k + 1, Len(q))

InitStore ==
    /\ recurringTasks \in {<<t>> : t \in TaskData}
    /\ dailyTasks = <<>>
    /\ now = StartNow
    /\ lastOp = Op("init", 0, "ok")
    /\ advCount = 0
    /\ advPc = "idle"
    /\ advIds = {}
    /\ tasksByMember = [tasks |-> <<>>, progress |-> 0]
    /\ apiCalls = <<>>
    /\ InitViews

\* fetchTodaysTasks, with a successful response: this.tasksByMember is
\* replaced, and the task and member objects that the completeTask calls in
\* flight hold are no longer those of the store
fetchTodaysTasks ==
    /\ tasksByMember' = TasksByMember(dailyTasks)
    /\ apiCalls' = [k \in DOMAIN apiCalls |-> [apiCalls[k] EXCEPT !.detached = TRUE]]
    /\ lastOp' = Op("fetch", 0, "ok")
    /\ UNCHANGED <<uiVars, recurringTasks, dailyTasks, now, advCount, advPc, advIds>>

\* completeTask(taskId, memberId) up to its await, the optimistic update:
\* the store after it
Optimistic(store, i, t) ==
    [tasks |-> [store.tasks EXCEPT ![i] = [status |-> "Completed", completed_at |-> t]],
     progress |-> store.progress + 1]

\* the request completeTask sends for task i: the oldStatus and oldCompleted
\* it captured, its place in the series of requests that one tap started, and
\* the task and the count as they were before that tap
Request(store, i, attempt, tap) ==
    [id |-> i,
     oldStatus |-> store.tasks[i].status,
     oldCompleted |-> store.progress,
     attempt |-> attempt,
     detached |-> FALSE,
     tap |-> tap]

\* the task and the completed count of its member, before a tap
BeforeTap(store, i) ==
    [status |-> store.tasks[i].status,
     completed_at |-> store.tasks[i].completed_at,
     completed |-> store.progress]

\* completeTask(taskId, memberId), called by a tap on the task
completeTask(i) ==
    /\ i \in DOMAIN tasksByMember.tasks
    /\ Len(apiCalls) < MaxCalls
    /\ tasksByMember' = Optimistic(tasksByMember, i, now)
    /\ apiCalls' = Append(apiCalls,
                          Request(tasksByMember, i, 1, BeforeTap(tasksByMember, i)))
    /\ lastOp' = Op("completeTask", i, "sent")
    /\ UNCHANGED <<uiVars, recurringTasks, dailyTasks, now, advCount, advPc, advIds>>

\* completeTask after its await, try branch: the server has completed the
\* task and member.progress is taken from the response
CompleteSucceeds(k) ==
    /\ k \in DOMAIN apiCalls
    /\ CompleteResult(dailyTasks[apiCalls[k].id]) \in {"ok", "NoOp"}
    /\ dailyTasks' = [dailyTasks EXCEPT
                        ![apiCalls[k].id] = Completed(dailyTasks[apiCalls[k].id], now)]
    /\ tasksByMember' = IF apiCalls[k].detached
                        THEN tasksByMember
                        ELSE [tasksByMember EXCEPT !.progress = CompletedCount(dailyTasks')]
    /\ apiCalls' = Without(apiCalls, k)
    /\ lastOp' = Op("completeTask", apiCalls[k].id,
                    CompleteResult(dailyTasks[apiCalls[k].id]))
    /\ UNCHANGED <<uiVars, recurringTasks, now, advCount, advPc, advIds>>

\* the catch branch's revert of the optimistic changes
Reverted(store, call) ==
    IF call.detached
    THEN store
    ELSE [tasks |-> [store.tasks EXCEPT
                        ![call.id] = [status |-> call.oldStatus, completed_at |-> Null]],
          progress |-> call.oldCompleted]

\* completeTask after its await, catch branch: the request failed, the
\* optimistic changes are reverted and useRetry().scheduleRetry calls
\* completeTask again at once: executeRetry runs item.fn() before any delay,
\* and completeTask runs up to its await, with the optimistic update and the
\* next request
CompleteFails(k) ==
    /\ k \in DOMAIN apiCalls
    /\ apiCalls[k].attempt < MaxAttempts
    /\ tasksByMember' =
          Optimistic(Reverted(tasksByMember, apiCalls[k]), apiCalls[k].id, now)
    /\ apiCalls' = Append(Without(apiCalls, k),
                          Request(Reverted(tasksByMember, apiCalls[k]), apiCalls[k].id,
                                  apiCalls[k].attempt + 1, apiCalls[k].tap))
    /\ lastOp' = Op("completeTask", apiCalls[k].id, "failed")
    /\ UNCHANGED <<uiVars, recurringTasks, dailyTasks, now, advCount, advPc, advIds>>

\* toggleTaskCompletion(task) of the task views, on the house store
toggleTaskCompletion(i) ==
    /\ i \in DOMAIN dailyTasks
    /\ dailyTasks' = IF dailyTasks[i].status = "Completed"
                     THEN dailyTasks
                     ELSE [dailyTasks EXCEPT ![i] = Completed(dailyTasks[i], now)]
    /\ lastOp' = Op("toggle", i, IF dailyTasks[i].status = "Completed"
                                 THEN "NoOp" ELSE CompleteResult(dailyTasks[i]))
    /\ UNCHANGED <<uiVars, recurringTasks, now, advCount, advPc, advIds, tasksByMember, apiCalls>>

NextStore ==
    \/ \E d \in Dates : GenerateForDate(d)
    \/ Tick
    \/ fetchTodaysTasks
    \/ \E i \in DOMAIN tasksByMember.tasks : completeTask(i)
    \/ \E k \in DOMAIN apiCalls : CompleteSucceeds(k)
    \/ \E k \in DOMAIN apiCalls : CompleteFails(k)
    \/ \E i \in DOMAIN dailyTasks : toggleTaskCompletion(i)

SpecStore == InitStore /\ [][NextStore]_vars

----------------------------------------------------------------------------
(* The house store (stores/house.js) *)

\* the instances after template taskId was edited or deleted, with the
\* instances generated from it removed along with it
InstancesAfterEdit_Cascade(tasks, taskId) ==
    SelectSeq(tasks, LAMBDA task : task.recurring_task_id # taskId)

\* the instances after template taskId was edited or deleted: the store
\* writes recurringTasks only and no instance is re-resolved
InstancesAfterEdit(tasks, taskId) == tasks

\* updateRecurringTask(taskId, taskData); the catch branch rethrows
updateRecurringTask(taskId, taskData, apiOk) ==
    /\ taskId \in DOMAIN recurringTasks
    /\ recurringTasks' = IF apiOk
                         THEN [recurringTasks EXCEPT ![taskId] = taskData]
                         ELSE recurringTasks
    /\ dailyTasks' = IF apiOk THEN InstancesAfterEdit(dailyTasks, taskId) ELSE dailyTasks
    /\ lastOp' = Op("updateRecurringTask", taskId, IF apiOk THEN "returned" ELSE "thrown")
    /\ UNCHANGED <<uiVars, tasksByMember, apiCalls, now, advCount, advPc, advIds>>

\* deleteRecurringTask(taskId); the catch branch rethrows
deleteRecurringTask(taskId, apiOk) ==
    /\ taskId \in DOMAIN recurringTasks
    /\ recurringTasks' = IF apiOk THEN Without(recurringTasks, taskId) ELSE recurringTasks
    /\ dailyTasks' = IF apiOk THEN InstancesAfterEdit(dailyTasks, taskId) ELSE dailyTasks
    /\ lastOp' = Op("deleteRecurringTask", taskId, IF apiOk THEN "returned" ELSE "thrown")
    /\ UNCHANGED <<uiVars, tasksByMember, apiCalls, now, advCount, advPc, advIds>>

\* completeTask that writes the completion before the API has answered and
\* logs a failure instead of throwing it
completeTaskOutcome_Optimistic(tasks, i, t, apiOk) ==
    [tasks |-> [tasks EXCEPT ![i] = Completed(tasks[i], t)], result |-> "returned"]

\* completeTask(taskId) of the house store: dailyTasks[taskIndex] = result.task
\* when apiService.completeTask resolves, throw error when it rejects
completeTaskOutcome(tasks, i, t, apiOk) ==
    IF apiOk
    THEN [tasks |-> [tasks EXCEPT ![i] = Completed(tasks[i], t)], result |-> "returned"]
    ELSE [tasks |-> tasks, result |-> "thrown"]

\* completeTask(taskId) of the house store, the API call succeeding or failing
house_completeTask(i, apiOk) ==
    /\ i \in DOMAIN dailyTasks
    /\ dailyTasks' = completeTaskOutcome(dailyTasks, i, now, apiOk).tasks
    /\ lastOp' = Op(IF apiOk THEN "completeTask.resolved" ELSE "completeTask.rejected",
                    i, completeTaskOutcome(dailyTasks, i, now, apiOk).result)
    /\ UNCHANGED <<uiVars, tasksByMember, apiCalls, recurringTasks, now, advCount, advPc, advIds>>

NextHouse ==
    \/ \E d \in Dates : GenerateForDate(d)
    \/ AdvanceLifecycle
    \/ \E taskId \in DOMAIN recurringTasks, taskData \in TaskData, apiOk \in BOOLEAN :
          updateRecurringTask(taskId, taskData, apiOk)
    \/ \E taskId \in DOMAIN recurringTasks, apiOk \in BOOLEAN :
          deleteRecurringTask(taskId, apiOk)
    \/ \E i \in DOMAIN dailyTasks, apiOk \in BOOLEAN : house_completeTask(i, apiOk)

SpecHouse == InitStore /\ [][NextHouse]_vars

----------------------------------------------------------------------------
(* The focus view over one day: the tasks as fetched, the clock and the page *)

\* the due descriptors, task names and statuses of the fetched tasks
DueTimes ==
    {"Morning", "Lunch", "Afternoon", "Evening", "Night", "9:00 AM", "3:30 PM",
     "12:00 AM", "Anytime"}
TaskNames == {"Feed dog", "Morning pills", "Evening walk"}
TaskStatuses == {"Pending", "Overdue", "Completed"}

\* the local date of the day, a day of 24 hours
FocusDay == FirstDay + 1

\* loadDailyTasks has put one task in the store, at any hour of the day
InitTiming ==
    /\ recurringTasks = <<>>
    /\ dailyTasks \in {<<[task_name |-> n, due_time |-> d, status |-> st]>> :
                          n \in TaskNames, d \in DueTimes, st \in TaskStatuses}
    /\ now \in {ToUtc(FocusDay, h) : h \in 0 .. 23}
    /\ lastOp = Op("init", 0, "ok")
    /\ advCount = 0
    /\ advPc = "idle"
    /\ advIds = {}
    /\ tasksByMember = [tasks |-> <<>>, progress |-> 0]
    /\ apiCalls = <<>>
    /\ InitViews

\* the page is loaded: the module creates the timingService singleton and the
\* view is rendered
LoadPage ==
    /\ timingService' = TimingService(now)
    /\ focus' = Focus(dailyTasks, TimingService(now), now)
    /\ lastOp' = Op("load", getHours(now), "ok")
    /\ UNCHANGED <<activities, tasksByMember, apiCalls, recurringTasks, dailyTasks,
                   now, advCount, advPc, advIds>>

\* the focus view evaluates the getters of the store
Render ==
    /\ focus' = Focus(dailyTasks, timingService, now)
    /\ lastOp' = Op("render", getHours(now), "ok")
    /\ UNCHANGED <<timingService, activities, tasksByMember, apiCalls, recurringTasks,
                   dailyTasks, now, advCount, advPc, advIds>>

\* the clock moves on by one hour, up to 23:00
TickDay ==
    /\ now < ToUtc(FocusDay, 23)
    /\ now' = now + 1
    /\ lastOp' = Op("tick", 0, "ok")
    /\ UNCHANGED <<uiVars, tasksByMember, apiCalls, recurringTasks, dailyTasks,
                   advCount, advPc, advIds>>

NextTiming ==
    \/ LoadPage
    \/ Render
    \/ TickDay

SpecTiming == InitTiming /\ [][NextTiming]_vars

----------------------------------------------------------------------------
(* The activities view (components/ActivitiesView.vue) *)

\* Date.now() at instant t: the time since 1970-01-01T00:00Z, in the hours
\* of this model
DateNow(t) == 24 * 19723 + t

\* the first index of list q whose element has the id, as findIndex gives it
FindIndex(q, id) ==
    IF \E j \in DOMAIN q : q[j].id = id
    THEN CHOOSE j \in DOMAIN q : q[j].id = id /\ \A l \in 1 .. (j - 1) : q[l].id # id
    ELSE 0

\* id.replace('c', ''): the id without its first 'c'
ReplaceC(id) == [id EXCEPT !.c = FALSE]

\* toggleTaskCompletion(task) on a task of the active list
activities_toggleTaskCompletion(i) ==
    /\ i \in DOMAIN activities.mockTasks
    /\ activities' =
          [mockCompletedTasks |->
              <<[id |-> [c |-> TRUE, n |-> DateNow(now)],
                 name |-> activities.mockTasks[i].name,
                 completedAt |-> now]>> \o activities.mockCompletedTasks,
           mockTasks |->
              Without(activities.mockTasks,
                      FindIndex(activities.mockTasks, activities.mockTasks[i].id))]
    /\ lastOp' = Op("toggleTaskCompletion", i, "ok")
    /\ UNCHANGED <<timingService, focus, tasksByMember, apiCalls, recurringTasks,
                   dailyTasks, now, advCount, advPc, advIds>>

\* undoTaskCompletion(completedTask) on a task of the completed list
undoTaskCompletion(j) ==
    /\ j \in DOMAIN activities.mockCompletedTasks
    /\ activities' =
          [mockCompletedTasks |->
              Without(activities.mockCompletedTasks,
                      FindIndex(activities.mockCompletedTasks,
                                activities.mockCompletedTasks[j].id)),
           mockTasks |->
              Append(activities.mockTasks,
                     [id |-> ReplaceC(activities.mockCompletedTasks[j].id),
                      name |-> activities.mockCompletedTasks[j].name,
                      dueTime |-> now,
                      completed |-> FALSE,
                      isOverdue |-> FALSE])]
    /\ lastOp' = Op("undoTaskCompletion", j, "ok")
    /\ UNCHANGED <<timingService, focus, tasksByMember, apiCalls, recurringTasks,
                   dailyTasks, now, advCount, advPc, advIds>>

NextActivities ==
    \/ \E i \in DOMAIN activities.mockTasks : activities_toggleTaskCompletion(i)
    \/ \E j \in DOMAIN activities.mockCompletedTasks : undoTaskCompletion(j)
    \/ Tick

SpecActivities == Init /\ [][NextActivities]_vars

----------------------------------------------------------------------------
(* The status run step by step, racing with completions *)

\* update_task_statuses, step 1
AdvQueryPending ==
    /\ advPc = "idle"
    /\ advIds' = PendingQuery(dailyTasks, now)
    /\ advPc' = "q1"
    /\ advCount' = 0
    /\ lastOp' = Op("advance", 0, "step")
    /\ UNCHANGED <<uiVars, tasksByMember, apiCalls, recurringTasks, dailyTasks, now>>

\* update_task_statuses, step 2
AdvMarkOverdue ==
    /\ advPc = "q1"
    /\ dailyTasks' = MarkOverdue(dailyTasks, advIds)
    /\ advCount' = advCount + Changed(dailyTasks, MarkOverdue(dailyTasks, advIds))
    /\ advPc' = "u1"
    /\ lastOp' = Op("advance", 0, "step")
    /\ UNCHANGED <<uiVars, tasksByMember, apiCalls, recurringTasks, now, advIds>>

\* update_task_statuses, step 3
AdvQueryOverdue ==
    /\ advPc = "u1"
    /\ advIds' = OverdueQuery(dailyTasks, now)
    /\ advPc' = "q2"
    /\ lastOp' = Op("advance", 0, "step")
    /\ UNCHANGED <<uiVars, tasksByMember, apiCalls, recurringTasks, dailyTasks, now, advCount>>

\* update_task_statuses, step 4
AdvMarkCleared ==
    /\ advPc = "q2"
    /\ dailyTasks' = MarkCleared(dailyTasks, advIds)
    /\ advCount' = advCount + Changed(dailyTasks, MarkCleared(dailyTasks, advIds))
    /\ advPc' = "idle"
    /\ advIds' = {}
    /\ lastOp' = Op("advance", 0, "step")
    /\ UNCHANGED <<uiVars, tasksByMember, apiCalls, recurringTasks, now>>

NextRace ==
    \/ \E taskData \in TaskData : CreateRecurringTask(taskData)
    \/ \E d \in Dates : GenerateForDate(d)
    \/ AdvQueryPending
    \/ AdvMarkOverdue
    \/ AdvQueryOverdue
    \/ AdvMarkCleared
    \/ \E i \in DOMAIN dailyTasks : Complete(i)
    \/ Tick

SpecRace == Init /\ [][NextRace]_vars

----------------------------------------------------------------------------
(* Properties *)

\* the instances stored for template tid and local date d
InstancesOf(tasks, tid, d) ==
    {i \in DOMAIN tasks : tasks[i].recurring_task_id = tid /\ tasks[i].date = d}

\* C1: GenerateForDate(d), also when repeated for the same d, leaves every
\* stored instance as it was and leaves exactly one instance per
\* (recurring_task_id, date) for each eligible active template.
C1_GenerateIdempotent ==
    [][\A d \in Dates :
        GenerateForDate(d) =>
            /\ SubSeq(dailyTasks', 1, Len(dailyTasks)) = dailyTasks
            /\ \A i \in DOMAIN dailyTasks' :
                 Cardinality(InstancesOf(dailyTasks', dailyTasks'[i].recurring_task_id,
                                         dailyTasks'[i].date)) = 1
            /\ \A tid \in ActiveTasks(recurringTasks) :
                 ShouldGenerate(recurringTasks[tid], d) =>
                     Cardinality(InstancesOf(dailyTasks', tid, d)) = 1]_vars

\* a repeated GenerateForDate(d) ran over an instance of d that had already
\* been completed
C1_Witness ==
    /\ lastOp.op = "generate"
    /\ \E i \in DOMAIN dailyTasks :
         dailyTasks[i].date = lastOp.id /\ dailyTasks[i].status = "Completed"

\* C2: every stored instance has due_timestamp <= overdue_at <= clear_at
\* (the timestamps are written at generation and never change).
C2_TimestampsOrdered ==
    \A i \in DOMAIN dailyTasks :
        /\ dailyTasks[i].due_timestamp <= dailyTasks[i].overdue_at
        /\ dailyTasks[i].overdue_at <= dailyTasks[i].clear_at

\* C3: a status run at time now takes a Pending instance out of Pending if and
\* only if now >= overdue_at.
C3_OverdueIffReached ==
    [][AdvanceLifecycle =>
        \A i \in DOMAIN dailyTasks :
            dailyTasks[i].status = "Pending" =>
                (dailyTasks'[i].status # "Pending" <=> now >= dailyTasks[i].overdue_at)]_vars

\* C4: right after Undo at a time past overdue_at and before clear_at the
\* instance is Overdue.
C4_UndoReturnsOverdue ==
    (lastOp.op = "undo" /\ lastOp.result = "ok") =>
        LET task == dailyTasks[lastOp.id]
        IN  (task.overdue_at < now /\ now < task.clear_at) => task.status = "Overdue"

\* the status of a never-completed instance at time t
StatusAt(task, t) ==
    IF t >= task.clear_at THEN "Cleared"
    ELSE IF t >= task.overdue_at THEN "Overdue"
    ELSE "Pending"

\* C5: right after Undo at time now the status is the one a never-completed
\* copy would have: Pending before overdue_at, Overdue from overdue_at until
\* clear_at, Cleared from clear_at on.
C5_UndoRecomputes ==
    (lastOp.op = "undo" /\ lastOp.result = "ok") =>
        dailyTasks[lastOp.id].status = StatusAt(dailyTasks[lastOp.id], now)

\* an instance is Completed exactly when it carries a completion time
NoMixedState ==
    \A i \in DOMAIN dailyTasks :
        dailyTasks[i].status = "Completed" <=> dailyTasks[i].completed_at # Null

\* no step of the status run alters a Completed instance
CompletionKept ==
    \A i \in DOMAIN dailyTasks :
        dailyTasks[i].status = "Completed" => dailyTasks'[i] = dailyTasks[i]

\* C6: with Complete interleaved between the steps of a status run, no
\* instance is ever in a mixed state and no completion is overwritten.
C6_RaceAtomic == []NoMixedState /\ [][CompletionKept]_vars

\* the update of step 2 ran over an instance that was completed after the
\* query of step 1 had selected it
C6_Witness ==
    /\ advPc = "u1"
    /\ \E i \in advIds :
         dailyTasks[i].status = "Completed" /\ dailyTasks[i].completed_at # Null

\* the next local midnight after local date d
NextLocalMidnight(d) == ToUtc(d + 1, 0)

\* C7: after a status run at or after the next local midnight following its
\* date, a Daily instance that is neither Completed nor Skipped is Cleared.
C7_DailyClearedNextDay ==
    lastOp.op = "advance" =>
        \A i \in DOMAIN dailyTasks :
            (/\ dailyTasks[i].frequency = "Daily"
             /\ dailyTasks[i].status \notin {"Completed", "Skipped"}
             /\ now >= NextLocalMidnight(dailyTasks[i].date))
            => dailyTasks[i].status = "Cleared"

\* C8: a status run that directly follows a status run at the same now makes
\* no transition and returns 0.
C8_RepeatedRunNoOp ==
    [][(AdvanceLifecycle /\ lastOp.op = "advance") =>
        (dailyTasks' = dailyTasks /\ advCount' = 0)]_vars

\* a second run followed a first run that took the only instance from Pending
\* through Overdue to Cleared
C8_Witness ==
    /\ lastOp = Op("advance", 2, "repeat")
    /\ advCount = 0
    /\ Len(dailyTasks) = 1
    /\ dailyTasks[1].status = "Cleared"

\* C9: a status run changes no field of a Completed or Skipped instance.
C9_TerminalUntouched ==
    [][AdvanceLifecycle =>
        \A i \in DOMAIN dailyTasks :
            dailyTasks[i].status \in {"Completed", "Skipped"} =>
                dailyTasks'[i] = dailyTasks[i]]_vars

\* a status run has just run past overdue_at and clear_at of a Completed
\* instance
C9_Witness ==
    /\ lastOp.op = "advance"
    /\ \E i \in DOMAIN dailyTasks :
         /\ dailyTasks[i].status = "Completed"
         /\ dailyTasks[i].overdue_at < now
         /\ dailyTasks[i].clear_at < now

\* C10: an instance carries a completion time exactly when it is Completed,
\* and right after Undo it carries none.
C10_CompletedAtIffCompleted ==
    /\ NoMixedState
    /\ (lastOp.op = "undo" => dailyTasks[lastOp.id].completed_at = Null)

\* C10, on the instance table and on the tasks the dashboard store holds: a
\* task carries a completion time exactly when it is Completed.
C10_CompletedAtIffCompletedEverywhere ==
    /\ C10_CompletedAtIffCompleted
    /\ \A i \in DOMAIN tasksByMember.tasks :
          tasksByMember.tasks[i].status = "Completed"
              <=> tasksByMember.tasks[i].completed_at # Null

\* an Undo has just taken a completed instance back
C10_Witness ==
    /\ lastOp = Op("undo", lastOp.id, "ok")
    /\ dailyTasks[lastOp.id].status # "Completed"
    /\ dailyTasks[lastOp.id].completed_at = Null

\* C11: Complete on a Cleared or Skipped instance answers AlreadyTerminal and
\* leaves the instance, its status and completed_at included, as it was.
C11_CompleteOnTerminalRejected ==
    [][\A i \in DOMAIN dailyTasks :
        (Complete(i) /\ dailyTasks[i].status \in {"Cleared", "Skipped"}) =>
            /\ lastOp'.result = "AlreadyTerminal"
            /\ dailyTasks'[i] = dailyTasks[i]]_vars

\* Complete has just been refused on a Cleared instance
C11_Witness ==
    /\ lastOp.op = "complete"
    /\ lastOp.result = "AlreadyTerminal"
    /\ dailyTasks[lastOp.id].status = "Cleared"

\* C12: Undo on an instance that is not Completed answers NotCompleted and
\* leaves the instance as it was.
C12_UndoOnNotCompletedRejected ==
    [][\A i \in DOMAIN dailyTasks :
        (Undo(i) /\ dailyTasks[i].status # "Completed") =>
            /\ lastOp'.result = "NotCompleted"
            /\ dailyTasks'[i] = dailyTasks[i]]_vars

\* Undo has just been refused on an Overdue instance
C12_Witness ==
    /\ lastOp.op = "undo"
    /\ lastOp.result = "NotCompleted"
    /\ dailyTasks[lastOp.id].status = "Overdue"

\* C13: completing a task that is already Completed changes neither the task
\* (status, completed_at) nor the completed count, in the task views
\* (toggleTaskCompletion) and in the dashboard store (completeTask).
C13_RepeatedCompleteNoOp ==
    [][/\ \A i \in DOMAIN dailyTasks :
            (toggleTaskCompletion(i) /\ dailyTasks[i].status = "Completed") =>
                (dailyTasks'[i] = dailyTasks[i]
                 /\ CompletedCount(dailyTasks') = CompletedCount(dailyTasks))
       /\ \A i \in DOMAIN tasksByMember.tasks :
            (completeTask(i) /\ tasksByMember.tasks[i].status = "Completed") =>
                (tasksByMember'.tasks[i] = tasksByMember.tasks[i]
                 /\ tasksByMember'.progress = tasksByMember.progress)]_vars

\* C14 as stated: no step changes the status of a Cleared or Skipped instance.
C14_TerminalNeverChanges ==
    [][\A i \in DOMAIN dailyTasks :
        dailyTasks[i].status \in {"Cleared", "Skipped"} =>
            dailyTasks'[i].status = dailyTasks[i].status]_vars

\* C14 (amended): no step changes the status of a Skipped instance, and the
\* only step that changes the status of a Cleared instance is Unsnooze, which
\* takes it back to Overdue.
C14_TerminalExceptUnsnooze ==
    [][\A i \in DOMAIN dailyTasks :
        /\ dailyTasks[i].status = "Skipped" => dailyTasks'[i].status = "Skipped"
        /\ (dailyTasks[i].status = "Cleared" /\ dailyTasks'[i].status # "Cleared") =>
              (lastOp' = Op("unsnooze", i, "ok") /\ dailyTasks'[i].status = "Overdue")]_vars

\* a Cleared instance has just been taken back to Overdue by Unsnooze
C14_Witness ==
    /\ lastOp.op = "unsnooze"
    /\ dailyTasks[lastOp.id].status = "Overdue"
    /\ dailyTasks[lastOp.id].clear_at < now

\* C15: a Weekly instance has clear_at = overdue_at + 7 days and a Monthly
\* instance has clear_at = overdue_at + 30 days.
C15_ClearAfterOverdue ==
    \A i \in DOMAIN dailyTasks :
        /\ dailyTasks[i].frequency = "Weekly" =>
              dailyTasks[i].clear_at = dailyTasks[i].overdue_at + 24 * 7
        /\ dailyTasks[i].frequency = "Monthly" =>
              dailyTasks[i].clear_at = dailyTasks[i].overdue_at + 24 * 30

\* the instance generated for local date d from a template with due
\* descriptor due and overdue behaviour o, if there is one
GeneratedFor(frequency, due, o, d) ==
    {i \in DOMAIN dailyTasks :
        /\ dailyTasks[i].date = d
        /\ dailyTasks[i].frequency = frequency
        /\ recurringTasks[dailyTasks[i].recurring_task_id].due = due
        /\ recurringTasks[dailyTasks[i].recurring_task_id].overdue_when = o}

\* 2024-08-02 as a day number
Aug2 == 31 + 29 + 31 + 30 + 31 + 30 + 31 + 1

\* C16: the Daily Evening instance with overdue behaviour 1 hour generated
\* for 2024-08-02 (UTC-4) has due_timestamp 2024-08-02T23:00Z, overdue_at
\* 2024-08-03T00:00Z and clear_at 2024-08-03T04:00Z.
C16_ExampleTimestamps ==
    \A i \in GeneratedFor("Daily", "Evening", "1 hour", Aug2) :
        /\ dailyTasks[i].due_timestamp = 24 * Aug2 + 23
        /\ dailyTasks[i].overdue_at = 24 * (Aug2 + 1)
        /\ dailyTasks[i].clear_at = 24 * (Aug2 + 1) + 4

\* C17: on the days before, on and after the spring-forward day a Daily
\* Morning instance is due at 09:00 local (14:00Z before the transition,
\* 13:00Z from the transition day on) and its clear_at is the next local
\* midnight.
C17_DstWallClock ==
    \A d \in (DstStartDay - 1) .. (DstStartDay + 1) :
        \A i \in GeneratedFor("Daily", "Morning", "Immediate", d) :
            /\ dailyTasks[i].due_timestamp =
                  24 * d + 9 + (IF d < DstStartDay THEN 5 ELSE 4)
            /\ dailyTasks[i].clear_at =
                  24 * (d + 1) + (IF d + 1 < DstStartDay THEN 5 ELSE 4)

\* the days of 2024-01-01 .. 2025-12-31 that are the 31st of a month
Days31 == {30, 90, 151, 212, 243, 304, 365, 396, 455, 516, 577, 608, 669, 730}

\* the days of 2024 in February, April, June, September and November
ShortMonthDays ==
    (31 .. 59) \cup (91 .. 120) \cup (152 .. 181) \cup (244 .. 273) \cup (305 .. 334)

\* C18: GenerateForDate(d) on the empty table creates an instance of a Monthly
\* template due "31" exactly when d is the 31st of a month, and the instance
\* is one for d; hence none is created in February, April, June, September or
\* November.
C18_MonthlyNoRollover ==
    (/\ lastOp.op = "generate"
     /\ recurringTasks[1].frequency = "Monthly"
     /\ recurringTasks[1].due = "31") =>
        /\ dailyTasks # <<>> <=> lastOp.id \in Days31
        /\ lastOp.id \in ShortMonthDays => dailyTasks = <<>>
        /\ \A i \in DOMAIN dailyTasks : dailyTasks[i].date = lastOp.id

\* generation was asked for 2024-02-29 of a Monthly template due "31" and
\* created nothing
C18_Witness ==
    /\ lastOp = Op("generate", 31 + 28, "ok")
    /\ recurringTasks[1].frequency = "Monthly"
    /\ recurringTasks[1].due = "31"
    /\ dailyTasks = <<>>

\* C19: GenerateForDate(d) on the empty table creates an instance of a Weekly
\* template due "Sunday" exactly when d is a Sunday (2024-01-07 is one, so
\* d % 7 = 6), and the instance is one for d.
C19_WeeklyOnSundays ==
    (/\ lastOp.op = "generate"
     /\ recurringTasks[1].frequency = "Weekly"
     /\ recurringTasks[1].due = "Sunday") =>
        /\ dailyTasks # <<>> <=> lastOp.id % 7 = 6
        /\ \A i \in DOMAIN dailyTasks : dailyTasks[i].date = lastOp.id

\* an instance of the Weekly template exists for Sunday 2025-02-02, the last
\* Sunday of the range, past the leap day
C19_Witness ==
    /\ recurringTasks[1].frequency = "Weekly"
    /\ Len(dailyTasks) = 1
    /\ dailyTasks[1].date = 366 + 31 + 1

\* C20: GenerateForDate creates no instance of a template that is inactive.
C20_InactiveNeverGenerates ==
    [][\A d \in Dates :
        GenerateForDate(d) =>
            \A i \in (DOMAIN dailyTasks') \ (DOMAIN dailyTasks) :
                recurringTasks[dailyTasks'[i].recurring_task_id].status = "Active"]_vars

\* generation has run with an inactive template and has created nothing
C20_Witness ==
    /\ lastOp.op = "generate"
    /\ Len(recurringTasks) = 1
    /\ recurringTasks[1].status = "Inactive"
    /\ dailyTasks = <<>>

----------------------------------------------------------------------------
(* C21: editing or deleting a recurring task after an instance was generated
   from it leaves every field of that instance unchanged: the step of
   updateRecurringTask or deleteRecurringTask keeps the whole instance table,
   with recurring_task_id, date, due_timestamp, overdue_at, clear_at, status
   and completed_at of every instance *)
C21_EditKeepsInstances ==
    [][lastOp'.op \in {"updateRecurringTask", "deleteRecurringTask"}
         => /\ Len(dailyTasks') = Len(dailyTasks)
            /\ \A i \in DOMAIN dailyTasks :
                  /\ dailyTasks'[i].recurring_task_id = dailyTasks[i].recurring_task_id
                  /\ dailyTasks'[i].date = dailyTasks[i].date
                  /\ dailyTasks'[i].due_timestamp = dailyTasks[i].due_timestamp
                  /\ dailyTasks'[i].overdue_at = dailyTasks[i].overdue_at
                  /\ dailyTasks'[i].clear_at = dailyTasks[i].clear_at
                  /\ dailyTasks'[i].status = dailyTasks[i].status
                  /\ dailyTasks'[i].completed_at = dailyTasks[i].completed_at]_vars

\* a template was deleted, or edited to another frequency, and the instance
\* generated from it is still stored
C21_Witness ==
    /\ lastOp.op \in {"updateRecurringTask", "deleteRecurringTask"}
    /\ lastOp.result = "returned"
    /\ \E i \in DOMAIN dailyTasks :
          /\ dailyTasks[i].recurring_task_id = lastOp.id
          /\ \/ recurringTasks = <<>>
             \/ recurringTasks[lastOp.id].frequency # dailyTasks[i].frequency

----------------------------------------------------------------------------
(* C22: a Skipped instance does not count toward the progress metric: the
   progress the house store computes for the member counts the Completed
   instances as completed and every instance but the Skipped ones in total *)
C22_SkippedNotCounted ==
    /\ progress(dailyTasks, timingService).completed =
          Cardinality({i \in DOMAIN dailyTasks : dailyTasks[i].status = "Completed"})
    /\ progress(dailyTasks, timingService).total =
          Cardinality({i \in DOMAIN dailyTasks : dailyTasks[i].status # "Skipped"})

----------------------------------------------------------------------------
(* C23: when the API call behind a completion fails, the failure is surfaced
   and nothing is written: a step of the house store's completeTask whose
   API call is rejected keeps the list of daily tasks and ends by throwing
   the error *)
C23_FailedCompleteWritesNothing ==
    [][lastOp'.op = "completeTask.rejected"
         => (dailyTasks' = dailyTasks /\ lastOp'.result = "thrown")]_vars

\* the API call behind the completion of a task that is not yet Completed
\* was rejected
C23_Witness ==
    /\ lastOp.op = "completeTask.rejected"
    /\ lastOp.id \in DOMAIN dailyTasks
    /\ dailyTasks[lastOp.id].status \in {"Pending", "Overdue"}

----------------------------------------------------------------------------
(* C24: every consumer reads the persisted status: the views show an
   instance that is not Completed as overdue, by timingService.isTaskOverdue
   and in the overdueTasks list, exactly when its stored status is Overdue *)
C24_OverdueShownIffStored ==
    \A i \in DOMAIN dailyTasks :
        dailyTasks[i].status # "Completed"
        => /\ isTaskOverdue(dailyTasks[i], timingService)
                <=> dailyTasks[i].status = "Overdue"
           /\ i \in overdueTasks(dailyTasks, timingService)
                <=> dailyTasks[i].status = "Overdue"

----------------------------------------------------------------------------
(* C28: the classification follows the time of evaluation: whenever the
   local hour is 12 or later, isTaskOverdue reports a task due "Morning" that
   is not Completed as overdue, whenever the singleton was created *)
C28_MorningOverdueFromNoon ==
    \A i \in DOMAIN dailyTasks :
        /\ getHours(now) >= 12
        /\ dailyTasks[i].status # "Completed"
        /\ DueTimeOf(dailyTasks[i]) = "Morning"
        => isTaskOverdue(dailyTasks[i], timingService)

----------------------------------------------------------------------------
(* C29: for every task that is not Completed, every due descriptor and task
   name and every hour, timingService never reports the task both overdue
   and due now, and the rendered overdueTasks and currentPeriodTasks lists
   share no task *)
C29_OverdueAndDueNowExclusive ==
    /\ \A i \in DOMAIN dailyTasks :
          dailyTasks[i].status # "Completed"
          => ~(isTaskOverdue(dailyTasks[i], timingService)
               /\ isTaskDueNow(dailyTasks[i], timingService))
    /\ focus.overdueTasks \cap focus.currentPeriodTasks = {}

\* at 23:00 an Evening task has left its due-now window, which ran to 22:59,
\* and is rendered in the overdue list
C29_Witness ==
    /\ lastOp.op = "render"
    /\ timingService.currentHour = 23
    /\ \E i \in focus.overdueTasks :
          /\ DueTimeOf(dailyTasks[i]) = "Evening"
          /\ ~isTaskDueNow(dailyTasks[i], timingService)
          /\ isTaskDueNow(dailyTasks[i], [timingService EXCEPT !.currentHour = 22])

----------------------------------------------------------------------------
(* C30: at every hour the rendered nextPeriodName is the period that follows
   the rendered currentPeriodName in the order This Morning, This Afternoon,
   This Evening, Tonight, Tomorrow Morning *)
C30_NextPeriodFollowsCurrent ==
    focus.nextPeriodName =
        CASE focus.currentPeriodName = "This Morning" -> "This Afternoon"
          [] focus.currentPeriodName = "This Afternoon" -> "This Evening"
          [] focus.currentPeriodName = "This Evening" -> "Tonight"
          [] focus.currentPeriodName = "Tonight" -> "Tomorrow Morning"

----------------------------------------------------------------------------
(* C25: a completion whose API call keeps failing is retried at most 3 times
   and then ends: no request in flight is more than the third retry of the
   request its tap sent *)
C25_RetryBounded ==
    \A k \in DOMAIN apiCalls : apiCalls[k].attempt <= 1 + maxAttempts

----------------------------------------------------------------------------
(* C26: after a completion has finally failed, the optimistic change is
   reverted: when the third retry of a tap's request has failed, the task's
   status, its completed_at and the member's completed count are those from
   before the tap *)
C26_FinalFailureReverts ==
    (/\ lastOp.op = "completeTask"
     /\ lastOp.result = "failed"
     /\ apiCalls[Len(apiCalls)].attempt > 1 + maxAttempts)
    => /\ tasksByMember.tasks[lastOp.id].status = apiCalls[Len(apiCalls)].tap.status
       /\ tasksByMember.tasks[lastOp.id].completed_at
             = apiCalls[Len(apiCalls)].tap.completed_at
       /\ tasksByMember.progress = apiCalls[Len(apiCalls)].tap.completed

----------------------------------------------------------------------------
(* C27: in the activities view, completing a task and undoing the completion
   puts the task back in the active list with the id and the due time it had
   before, and takes it out of the completed list: a task of the view's
   active list that is in the active list again has its id and due time *)
C27_UndoRestoresTask ==
    \A i \in DOMAIN activities.mockTasks, o \in DOMAIN mockTasks :
        activities.mockTasks[i].name = mockTasks[o].name
        => /\ activities.mockTasks[i].id = mockTasks[o].id
           /\ activities.mockTasks[i].dueTime = mockTasks[o].dueTime
           /\ \A j \in DOMAIN activities.mockCompletedTasks :
                 activities.mockCompletedTasks[j].name # mockTasks[o].name

====
